---- MODULE Spec2Model ----
(***************************************************************************)
(* A model of src/main.py: the constituent import pipeline.                *)
(*                                                                         *)
(* Strings are sequences of one-character strings, so that trimming,       *)
(* lowercasing, splitting on commas, the e-mail pattern and the ordering   *)
(* of strings are computed character by character as Python does.  A       *)
(* missing cell (NaN / None) is the one-element sequence NaN, which is no  *)
(* string of characters.  A date cell and an amount cell are records       *)
(* [k, v]: k says whether the cell holds a value ("ts", "num"), a text     *)
(* that does not parse ("text") or nothing ("nan").                        *)
(***************************************************************************)
EXTENDS Integers, Sequences, FiniteSets, TLC

VARIABLES
    constituents,   \* sheet "Input Constituents" as read (main.py:128)
    emails,         \* sheet "Input Emails" as read (main.py:129)
    donations,      \* sheet "Input Donation History" as read (main.py:197)
    api,            \* what the tag-mapping service answers (main.py:86)
    pc,             \* position of main()
    deduped,        \* result of dedupe_constituents (main.py:132)
    cons,           \* constituents, indexed by trimmed Patron ID (main.py:134)
    email_map,      \* Patron ID -> list of valid e-mails (main.py:143)
    resolved,       \* per row of cons: <<email1, email2>> (main.py:169)
    clean_tags,     \* per row of cons: "Clean Tags" (main.py:170)
    tag_mapping,    \* result of fetch_tag_mapping (main.py:174)
    mapped_tags,    \* per row of cons: "Mapped Tags" (main.py:176)
    tag_counts,     \* rows of cuebox_tags.csv (main.py:187)
    lifetime,       \* Patron ID -> sum of paid amounts (main.py:208)
    recent,         \* Patron ID -> most recent paid donation (main.py:211)
    final           \* rows of cuebox_constituents.csv (main.py:295)

vars == <<constituents, emails, donations, api, pc, deduped, cons, email_map,
          resolved, clean_tags, tag_mapping, mapped_tags, tag_counts,
          lifetime, recent, final>>

----------------------------------------------------------------------------
(* Bounds of the model. *)

MaxCons == 2        \* rows of the constituent sheet
MaxEmails == 3      \* rows of the e-mail sheet
MaxDonations == 2   \* rows of the donation sheet
MaxItems == 2       \* items of the tag-mapping payload
MaxTagLen == 3      \* characters of a raw tag string

----------------------------------------------------------------------------
(* Cells and strings. *)

NaN == <<"<NaN>">>
NaT == [k |-> "nan", v |-> 0]
NaNum == [k |-> "nan", v |-> 0]
\* Ts(d) is midnight of the d-th of January 2021, Num(n) is n cents
Ts(d) == [k |-> "ts", v |-> d]
Num(n) == [k |-> "num", v |-> n]
Text == [k |-> "text", v |-> 0]

\* pd.isna on a text cell
isna(x) == x = NaN

IsSpace(c) == c = " "

RECURSIVE LStrip(_)
LStrip(s) ==
    IF s = <<>> THEN <<>>
    ELSE IF IsSpace(Head(s)) THEN LStrip(Tail(s)) ELSE s

RECURSIVE RStrip(_)
RStrip(s) ==
    IF s = <<>> THEN <<>>
    ELSE IF IsSpace(s[Len(s)]) THEN RStrip(SubSeq(s, 1, Len(s) - 1)) ELSE s

\* str.strip()
Strip(s) == RStrip(LStrip(s))

\* str(x) of a text cell or of a missing one: astype(str) turns NaN into "nan"
astype_str(x) == IF x = NaN THEN <<"n", "a", "n">> ELSE x

as_clean_str(x) == IF isna(x) THEN <<>> ELSE Strip(x)

LowerChar(c) ==
    CASE c = "A" -> "a"
      [] c = "B" -> "b"
      [] c = "C" -> "c"
      [] c = "P" -> "p"
      [] OTHER -> c

\* str.lower()
Lower(s) == [i \in DOMAIN s |-> LowerChar(s[i])]

\* ord(c), for the characters the model's strings are made of
Ord(c) ==
    CASE c = " " -> 32
      [] c = "$" -> 36
      [] c = "," -> 44
      [] c = "." -> 46
      [] c = "0" -> 48
      [] c = "1" -> 49
      [] c = "2" -> 50
      [] c = "@" -> 64
      [] c = "A" -> 65
      [] c = "B" -> 66
      [] c = "C" -> 67
      [] c = "a" -> 97
      [] c = "b" -> 98
      [] c = "c" -> 99
      [] c = "n" -> 110
      [] c = "x" -> 120

\* s < t for Python strings: lexicographic by code point
RECURSIVE StrLess(_, _)
StrLess(s, t) ==
    IF t = <<>> THEN FALSE
    ELSE IF s = <<>> THEN TRUE
    ELSE IF Ord(Head(s)) # Ord(Head(t)) THEN Ord(Head(s)) < Ord(Head(t))
    ELSE StrLess(Tail(s), Tail(t))

\* the blank test of completeness_score on one cell: as_clean_str, "" -> NaN
NonBlankText(x) == as_clean_str(x) # <<>>
NonBlankDate(d) == d.k = "ts" \/ d.k = "text"

\* pd.to_datetime(errors="coerce") on a date cell
to_datetime(d) == IF d.k = "ts" THEN d ELSE NaT

\* pd.to_numeric(errors="coerce") on an amount cell
to_numeric(a) == IF a.k = "num" THEN a ELSE NaNum

----------------------------------------------------------------------------
(* dedupe_constituents *)

B2N(b) == IF b THEN 1 ELSE 0

\* completeness_score of one row; it is taken after "Patron ID" was
\* converted with astype(str), so a missing identifier counts as "nan"
completeness_score(r) ==
    B2N(NonBlankText(r.id)) + B2N(NonBlankText(r.name))
    + B2N(NonBlankText(r.primary)) + B2N(NonBlankText(r.tags))
    + B2N(NonBlankDate(r.date))

\* the row with the helper columns of main.py:45-48
WithHelpers(r) ==
    [id |-> astype_str(r.id), name |-> r.name, primary |-> r.primary,
     tags |-> r.tags, date |-> r.date,
     score |-> completeness_score([r EXCEPT !.id = astype_str(r.id)]),
     pdate |-> to_datetime(r.date)]

\* SortsBefore with the entry date ascending instead of descending
SortsBefore_DateAscending(a, b) ==
    \/ StrLess(a.id, b.id)
    \/ /\ a.id = b.id
       /\ \/ a.score > b.score
          \/ /\ a.score = b.score
             /\ a.pdate # NaT
             /\ (b.pdate = NaT \/ a.pdate.v < b.pdate.v)

\* the order of sort_values(by=[id, _score, _date], ascending=[T, F, F]),
\* NaT last: TRUE iff a sorts strictly before b
SortsBefore(a, b) ==
    \/ StrLess(a.id, b.id)
    \/ /\ a.id = b.id
       /\ \/ a.score > b.score
          \/ /\ a.score = b.score
             /\ a.pdate # NaT
             /\ (b.pdate = NaT \/ a.pdate.v > b.pdate.v)

\* sort_values of main.py:52-55: the row at i goes behind those that sort
\* before it and those that tie with it and come earlier (lexsort is stable)
SortConstituents(s) ==
    LET rank(i) == Cardinality({j \in DOMAIN s :
                       \/ SortsBefore(s[j], s[i])
                       \/ (~SortsBefore(s[i], s[j]) /\ j < i)})
    IN  [k \in DOMAIN s |-> s[CHOOSE i \in DOMAIN s : rank(i) = k - 1]]

\* drop_duplicates("Patron ID", keep="first")
RECURSIVE DropDupIds(_, _)
DropDupIds(s, seen) ==
    IF s = <<>> THEN <<>>
    ELSE IF Head(s).id \in seen THEN DropDupIds(Tail(s), seen)
    ELSE <<Head(s)>> \o DropDupIds(Tail(s), seen \cup {Head(s).id})

DropHelpers(r) ==
    [id |-> r.id, name |-> r.name, primary |-> r.primary, tags |-> r.tags,
     date |-> r.date]

dedupe_constituents(df) ==
    LET h == [i \in DOMAIN df |-> WithHelpers(df[i])]
        kept == DropDupIds(SortConstituents(h), {})
    IN  [i \in DOMAIN kept |-> DropHelpers(kept[i])]

\* main.py:134-135: the index is the trimmed Patron ID
StripIds(df) == [i \in DOMAIN df |-> [df[i] EXCEPT !.id = Strip(astype_str(@))]]

----------------------------------------------------------------------------
(* E-mails *)

NoAtNoSpace(s) == \A i \in DOMAIN s : s[i] # "@" /\ ~IsSpace(s[i])

\* EMAIL_REGEX.match: ^[^@\s]+@[^@\s]+\.[^@\s]+$
is_valid_email(e) ==
    \E i \in DOMAIN e : \E j \in DOMAIN e :
        /\ 1 < i /\ i + 1 < j /\ j < Len(e)
        /\ e[i] = "@" /\ e[j] = "."
        /\ NoAtNoSpace(SubSeq(e, 1, i - 1))
        /\ NoAtNoSpace(SubSeq(e, i + 1, j - 1))
        /\ NoAtNoSpace(SubSeq(e, j + 1, Len(e)))

\* main.py:139-141: trimmed identifiers, cleaned lowercased addresses, and
\* only the rows whose address matches the pattern; main() applies it to a
\* sheet with at least one row (see email_lookup_raises)
clean_emails(tbl) ==
    LET c == [i \in DOMAIN tbl |->
                 [id |-> Strip(astype_str(tbl[i].id)),
                  email |-> Lower(as_clean_str(tbl[i].email))]]
        Valid(r) == is_valid_email(r.email)
    IN  SelectSeq(c, Valid)

\* main.py:143: groupby("Patron ID")["Email"].apply(list).to_dict(), for a
\* sheet with at least one row (see email_lookup_raises)
build_email_map(tbl) ==
    LET c == clean_emails(tbl)
        ids == {c[i].id : i \in DOMAIN c}
        Of(p) == LET Mine(r) == r.id = p
                     mine == SelectSeq(c, Mine)
                 IN  [i \in DOMAIN mine |-> mine[i].email]
    IN  [p \in ids |-> Of(p)]

\* order-preserving removal of repeats (main.py:156-159, 71-76, 108-114)
RECURSIVE Unique(_, _)
Unique(s, seen) ==
    IF s = <<>> THEN <<>>
    ELSE IF Head(s) \in seen THEN Unique(Tail(s), seen)
    ELSE <<Head(s)>> \o Unique(Tail(s), seen \cup {Head(s)})

resolve_emails(row, emap) ==
    LET primary == Lower(as_clean_str(row.primary))
        others == IF row.id \in DOMAIN emap THEN emap[row.id] ELSE <<>>
        candidates == (IF primary # <<>> THEN <<primary>> ELSE <<>>) \o others
        seen == Unique(candidates, {})
        email1 == IF Len(seen) > 0 THEN seen[1] ELSE <<>>
        email2 == IF Len(seen) > 1 THEN seen[2] ELSE <<>>
    IN  <<email1, IF email1 = <<>> THEN <<>> ELSE email2>>

----------------------------------------------------------------------------
(* Tags *)

\* str.split(",")
RECURSIVE SplitComma(_, _)
SplitComma(s, cur) ==
    IF s = <<>> THEN <<cur>>
    ELSE IF Head(s) = "," THEN <<cur>> \o SplitComma(Tail(s), <<>>)
    ELSE SplitComma(Tail(s), Append(cur, Head(s)))

split_tags(tag_str) ==
    IF isna(tag_str) THEN <<>>
    ELSE LET raw == SplitComma(tag_str, <<>>)
             parts == [i \in DOMAIN raw |-> Strip(raw[i])]
             NonEmpty(t) == t # <<>>
         IN  Unique(SelectSeq(parts, NonEmpty), {})

EmptyMapping == <<>>

\* mapping[name] = mapped
MapPut(m, name, mapped) ==
    [t \in DOMAIN m \cup {name} |-> IF t = name THEN mapped ELSE m[t]]

\* main.py:92-96 over the items of the payload, in order
RECURSIVE BuildMapping(_, _)
BuildMapping(data, m) ==
    IF data = <<>> THEN m
    ELSE LET name == as_clean_str(Head(data).name)
             mapped == as_clean_str(Head(data).mapped_name)
         IN  BuildMapping(Tail(data),
                 IF name # <<>> /\ mapped # <<>> THEN MapPut(m, name, mapped)
                 ELSE m)

\* fetch_tag_mapping without the test of the status code
fetch_tag_mapping_IgnoresStatus(r) ==
    IF r.outcome = "neterror" THEN EmptyMapping
    ELSE IF r.outcome \in {"badjson", "notlist"} THEN EmptyMapping
    ELSE IF \E i \in DOMAIN r.data : ~r.data[i].dict THEN EmptyMapping
    ELSE BuildMapping(r.data, EmptyMapping)

\* An answer of the service is [outcome, status, data]:
\*   "neterror"  requests.get raises (unreachable, timeout)
\*   "badjson"   the body is no JSON: r.json() raises
\*   "notlist"   the body is JSON that cannot be iterated (null, a number)
\*   "ok"        the body is a JSON list; an item with dict = FALSE is no
\*               object, and item.get raises on it
fetch_tag_mapping(r) ==
    IF r.outcome = "neterror" THEN EmptyMapping
    ELSE IF r.status # 200 THEN EmptyMapping
    ELSE IF r.outcome \in {"badjson", "notlist"} THEN EmptyMapping
    ELSE IF \E i \in DOMAIN r.data : ~r.data[i].dict THEN EmptyMapping
    ELSE BuildMapping(r.data, EmptyMapping)

\* mapping.get(t, t)
MapGet(m, t) == IF t \in DOMAIN m THEN m[t] ELSE t

\* map_tags without the second removal of repeats
map_tags_NoDedupe(tag_list, mapping) ==
    LET mapped == [i \in DOMAIN tag_list |-> as_clean_str(MapGet(mapping, tag_list[i]))]
        NonEmpty(t) == t # <<>>
    IN  SelectSeq(mapped, NonEmpty)

map_tags(tag_list, mapping) ==
    LET mapped == [i \in DOMAIN tag_list |-> as_clean_str(MapGet(mapping, tag_list[i]))]
        NonEmpty(t) == t # <<>>
    IN  Unique(SelectSeq(mapped, NonEmpty), {})

\* the elements of a set of strings in ascending order
RECURSIVE SortStrings(_)
SortStrings(S) ==
    IF S = {} THEN <<>>
    ELSE LET least == CHOOSE x \in S : \A y \in S \ {x} : StrLess(x, y)
         IN  <<least>> \o SortStrings(S \ {least})

Range(s) == {s[i] : i \in DOMAIN s}

\* count_tags counting the rows of a tag instead of their identifiers
count_tags_CountsRows(df, mapped) ==
    LET names == SortStrings(UNION {Range(mapped[i]) : i \in DOMAIN df})
    IN  [n \in DOMAIN names |->
            [name |-> names[n],
             count |-> Cardinality({i \in DOMAIN df : names[n] \in Range(mapped[i])})]]

\* main.py:180-192: explode (Patron ID, tag), drop blank tags, count the
\* distinct identifiers of each tag, sort by tag name
count_tags(df, mapped) ==
    LET Cells(i) == IF mapped[i] = <<>> THEN {NaN} ELSE Range(mapped[i])
        exploded == UNION {{<<df[i].id, as_clean_str(t)>> : t \in Cells(i)}
                           : i \in DOMAIN df}
        kept == {p \in exploded : p[2] # <<>>}
        names == SortStrings({p[2] : p \in kept})
    IN  [n \in DOMAIN names |->
            [name |-> names[n],
             count |-> Cardinality({p[1] : p \in {q \in kept : q[2] = names[n]}})]]

\* ", ".join(sorted(tags)) if tags else ""
RECURSIVE JoinComma(_)
JoinComma(s) ==
    IF s = <<>> THEN <<>>
    ELSE IF Len(s) = 1 THEN s[1]
    ELSE s[1] \o <<",", " ">> \o JoinComma(Tail(s))

cb_tags(tags) == JoinComma(SortStrings(Range(tags)))

----------------------------------------------------------------------------
(* Donations *)

Paid == <<"P", "a", "i", "d">>

\* paid_donations with the status compared without regard to case
paid_donations_AnyCase(tbl) ==
    LET c == [i \in DOMAIN tbl |->
                 [id |-> Strip(astype_str(tbl[i].id)),
                  status |-> tbl[i].status,
                  amount |-> to_numeric(tbl[i].amount),
                  date |-> to_datetime(tbl[i].date)]]
        IsPaid(r) == r.status # NaN /\ Lower(r.status) = Lower(Paid)
    IN  SelectSeq(c, IsPaid)

\* main.py:200-204: trimmed identifiers, the rows whose status is "Paid",
\* dates and amounts parsed
paid_donations(tbl) ==
    LET c == [i \in DOMAIN tbl |->
                 [id |-> Strip(astype_str(tbl[i].id)),
                  status |-> tbl[i].status,
                  amount |-> to_numeric(tbl[i].amount),
                  date |-> to_datetime(tbl[i].date)]]
        IsPaid(r) == r.status = Paid
    IN  SelectSeq(c, IsPaid)

\* Series.sum(): NaN is skipped, the sum of nothing is 0
RECURSIVE SumAmounts(_)
SumAmounts(s) ==
    IF s = <<>> THEN 0
    ELSE (IF Head(s).amount = NaNum THEN 0 ELSE Head(s).amount.v)
         + SumAmounts(Tail(s))

\* main.py:208: groupby("Patron ID")["Donation Amount"].sum()
lifetime_sum(paid) ==
    [p \in {paid[i].id : i \in DOMAIN paid} |->
        LET Mine(r) == r.id = p
        IN  Num(SumAmounts(SelectSeq(paid, Mine)))]

\* DonationBefore with the donation date ascending
DonationBefore_Ascending(a, b) ==
    \/ StrLess(a.id, b.id)
    \/ (a.id = b.id /\ a.date.v < b.date.v)

\* the order of sort_values(["Patron ID", "Donation Date"], [True, False])
DonationBefore(a, b) ==
    \/ StrLess(a.id, b.id)
    \/ (a.id = b.id /\ a.date.v > b.date.v)

\* sort_values of main.py:213, stable like SortConstituents
SortDonations(s) ==
    LET rank(i) == Cardinality({j \in DOMAIN s :
                       \/ DonationBefore(s[j], s[i])
                       \/ (~DonationBefore(s[i], s[j]) /\ j < i)})
    IN  [k \in DOMAIN s |-> s[CHOOSE i \in DOMAIN s : rank(i) = k - 1]]

\* main.py:211-216
most_recent(paid) ==
    LET HasDate(r) == r.date # NaT
        kept == DropDupIds(SortDonations(SelectSeq(paid, HasDate)), {})
    IN  [p \in {kept[i].id : i \in DOMAIN kept} |->
            LET i == CHOOSE i \in DOMAIN kept : kept[i].id = p IN kept[i]]

DigitChar(d) ==
    CASE d = 0 -> "0" [] d = 1 -> "1" [] d = 2 -> "2" [] d = 3 -> "3"
      [] d = 4 -> "4" [] d = 5 -> "5" [] d = 6 -> "6" [] d = 7 -> "7"
      [] d = 8 -> "8" [] d = 9 -> "9"

RECURSIVE Digits(_)
Digits(n) ==
    IF n < 10 THEN <<DigitChar(n)>>
    ELSE Digits(n \div 10) \o <<DigitChar(n % 10)>>

\* f"${float(x):.2f}" if pd.notna(x) else "", x in cents
to_currency(x) ==
    IF x = NaNum THEN <<>>
    ELSE <<"$">> \o Digits(x.v \div 100) \o <<".">>
         \o <<DigitChar((x.v % 100) \div 10), DigitChar(x.v % 10)>>

\* strftime("%Y-%m-%dT%H:%M:%S") of a parsed date, "" for NaT
strftime(d) ==
    IF d = NaT THEN <<>>
    ELSE <<"2", "0", "2", "1", "-", "0", "1", "-">>
         \o <<DigitChar(d.v \div 10), DigitChar(d.v % 10)>>
         \o <<"T", "0", "0", ":", "0", "0", ":", "0", "0">>

to_iso_datetime(x) == strftime(to_datetime(x))

\* index.map(series): the value at the identifier, NaN where there is none
MapIndex(series, id, missing) ==
    IF id \in DOMAIN series THEN series[id] ELSE missing

\* main.py:220-235, 295-310: one output row
final_row(row, emails12, mapped, life, rec) ==
    [id |-> row.id,
     created_at |-> to_iso_datetime(row.date),
     email1 |-> emails12[1],
     email2 |-> emails12[2],
     tags |-> cb_tags(mapped),
     lifetime_amount |-> to_currency(MapIndex(life, row.id, NaNum)),
     recent_date |->
         strftime(IF row.id \in DOMAIN rec THEN rec[row.id].date ELSE NaT),
     recent_amount |->
         to_currency(IF row.id \in DOMAIN rec THEN rec[row.id].amount ELSE NaNum)]

----------------------------------------------------------------------------
(* main() *)

\* main.py:132-135
Dedupe ==
    /\ pc = "start"
    /\ deduped' = dedupe_constituents(constituents)
    /\ cons' = StripIds(dedupe_constituents(constituents))
    /\ pc' = "emails"
    /\ UNCHANGED <<constituents, emails, donations, api, email_map, resolved,
                   clean_tags, tag_mapping, mapped_tags, tag_counts, lifetime,
                   recent, final>>

\* main.py:141-143 on an e-mail sheet without rows: the mask of line 141 is
\* an empty Series of dtype object, which selects no column instead of no
\* row, and groupby("Patron ID") raises KeyError
email_lookup_raises(tbl) == tbl = <<>>

\* main.py:169 on a constituent frame without rows: apply returns the empty
\* frame with all its columns, and the assignment to the two e-mail columns
\* raises ValueError
assign_emails_raises(df) == df = <<>>

\* main.py:139-171; an exception ends main() (pc = "failed"), nothing is
\* written
ResolveEmails ==
    /\ pc = "emails"
    /\ IF email_lookup_raises(emails)
       THEN /\ pc' = "failed"
            /\ UNCHANGED <<email_map, resolved, clean_tags>>
       ELSE IF assign_emails_raises(cons)
       THEN /\ email_map' = build_email_map(emails)
            /\ pc' = "failed"
            /\ UNCHANGED <<resolved, clean_tags>>
       ELSE /\ email_map' = build_email_map(emails)
            /\ resolved' = [i \in DOMAIN cons |->
                               resolve_emails(cons[i], build_email_map(emails))]
            /\ clean_tags' = [i \in DOMAIN cons |-> split_tags(cons[i].tags)]
            /\ pc' = "tags"
    /\ UNCHANGED <<constituents, emails, donations, api, deduped, cons,
                   tag_mapping, mapped_tags, tag_counts, lifetime, recent, final>>

\* main.py:174-193
MapTags ==
    /\ pc = "tags"
    /\ tag_mapping' = fetch_tag_mapping(api)
    /\ mapped_tags' = [i \in DOMAIN cons |->
                          map_tags(clean_tags[i], fetch_tag_mapping(api))]
    /\ tag_counts' = count_tags(cons, mapped_tags')
    /\ pc' = "donations"
    /\ UNCHANGED <<constituents, emails, donations, api, deduped, cons,
                   email_map, resolved, clean_tags, lifetime, recent, final>>

\* main.py:197-216
RollUpDonations ==
    /\ pc = "donations"
    /\ lifetime' = lifetime_sum(paid_donations(donations))
    /\ recent' = most_recent(paid_donations(donations))
    /\ pc' = "output"
    /\ UNCHANGED <<constituents, emails, donations, api, deduped, cons,
                   email_map, resolved, clean_tags, tag_mapping, mapped_tags,
                   tag_counts, final>>

\* main.py:220-312
WriteOutput ==
    /\ pc = "output"
    /\ final' = [i \in DOMAIN cons |->
                    final_row(cons[i], resolved[i], mapped_tags[i], lifetime, recent)]
    /\ pc' = "done"
    /\ UNCHANGED <<constituents, emails, donations, api, deduped, cons,
                   email_map, resolved, clean_tags, tag_mapping, mapped_tags,
                   tag_counts, lifetime, recent>>

Next == Dedupe \/ ResolveEmails \/ MapTags \/ RollUpDonations \/ WriteOutput

----------------------------------------------------------------------------
(* Inputs *)

Tables(Rows, n) == UNION {[1..k -> Rows] : k \in 0..n}

S1 == <<"1">>
S2 == <<"2">>
Sp1 == <<" ", "1">>
S1Sp == <<"1", " ">>

ConsRow(i, n, p, t, d) == [id |-> i, name |-> n, primary |-> p, tags |-> t, date |-> d]

\* the state of main() after the sheets were read and the service answered
Load(C, E, D, A) ==
    /\ constituents \in C
    /\ emails \in E
    /\ donations \in D
    /\ api \in A
    /\ pc = "start"
    /\ deduped = <<>> /\ cons = <<>> /\ email_map = <<>> /\ resolved = <<>>
    /\ clean_tags = <<>> /\ tag_mapping = <<>> /\ mapped_tags = <<>>
    /\ tag_counts = <<>> /\ lifetime = <<>> /\ recent = <<>> /\ final = <<>>

SampleCons == <<ConsRow(S1, <<"A">>, NaN, <<"a", ",", "b">>, Ts(1)),
                ConsRow(S2, <<"B">>, <<"a", "@", "b", ".", "c">>, NaN, Text)>>
SampleEmails == <<[id |-> S1, email |-> <<"x", "@", "b", ".", "c">>]>>
SampleDonations == <<[id |-> S1, status |-> Paid, amount |-> Num(500), date |-> Ts(1)]>>
SampleApi == [outcome |-> "ok", status |-> 200,
              data |-> <<[dict |-> TRUE, name |-> <<"a">>, mapped_name |-> <<"c">>]>>]

\* identity resolution: identifiers that differ by blanks or are missing,
\* names and entry dates that are present, unparseable or missing
IdentityRows ==
    {ConsRow(i, n, NaN, NaN, d) :
        i \in {S1, Sp1, NaN}, n \in {NaN, <<" ">>, <<"A">>, <<"B">>},
        d \in {NaT, Text, Ts(1), Ts(2)}}

Init == Load(Tables(IdentityRows, MaxCons), {SampleEmails}, {SampleDonations},
             {SampleApi})

Spec == Init /\ [][Next]_vars

\* e-mail resolution: one constituent whose declared primary e-mail is
\* missing, blank, valid or invalid, and an e-mail sheet of addresses that
\* are valid, invalid, repeated, in upper case or padded
EmailA == <<"a", "@", "b", ".", "c">>
EmailX == <<"x", "@", "b", ".", "c">>
EmailPaddedUpperA == <<" ", "A", "@", "b", ".", "c">>
EmailNoDot == <<"a", "@", "b">>

PrimaryRows ==
    {ConsRow(S1, <<"A">>, p, NaN, Ts(1)) :
        p \in {NaN, <<" ">>, EmailPaddedUpperA, EmailX, EmailNoDot}}

EmailRows ==
    [id : {Sp1, S2}, email : {NaN, EmailA, EmailPaddedUpperA, EmailX, EmailNoDot}]

InitEmail == Load([1..1 -> PrimaryRows], Tables(EmailRows, MaxEmails),
                  {SampleDonations}, {SampleApi})

SpecEmail == InitEmail /\ [][Next]_vars

\* tag parsing and mapping: one constituent with every raw tag string of up
\* to MaxTagLen characters (and a few longer ones), and every answer of the
\* mapping service
TagStrings ==
    UNION {[1..k -> {"a", "b", ",", " "}] : k \in 0..MaxTagLen}
    \cup {NaN, <<"a", ",", "b", ",", "a">>, <<" ", "b", " ", ",", " ", "a">>,
          <<"b", ",", "a", ",", "c">>}

NotAnObject == [dict |-> FALSE, name |-> NaN, mapped_name |-> NaN]

ApiItems ==
    [dict : {TRUE}, name : {<<"a">>, <<" ", "b">>},
     mapped_name : {<<"b">>, <<"c", " ">>, NaN}]
    \cup {NotAnObject}

ApiAnswers ==
    {[outcome |-> o, status |-> 200, data |-> <<>>] : o \in {"neterror", "badjson", "notlist"}}
    \cup {[outcome |-> "ok", status |-> 200, data |-> d] : d \in Tables(ApiItems, MaxItems)}
    \cup {[outcome |-> "ok", status |-> st, data |-> d] :
             st \in {404, 500}, d \in {<<>>, SampleApi.data}}

InitTags == Load([1..1 -> {ConsRow(S1, <<"A">>, NaN, t, Ts(1)) : t \in TagStrings}],
                 {SampleEmails}, {SampleDonations}, ApiAnswers)

SpecTags == InitTags /\ [][Next]_vars

\* tag counts: constituents whose identifiers may coincide after trimming
\* and whose tags overlap, with the service answering or failing
TagCountRows ==
    {ConsRow(i, <<"A">>, NaN, t, Ts(1)) :
        i \in {S1, Sp1, S2},
        t \in {NaN, <<"a">>, <<"b", ",", "a">>, <<"B", ",", "c">>}}

InitTagCount == Load(Tables(TagCountRows, MaxCons), {SampleEmails}, {SampleDonations},
                     {SampleApi, [outcome |-> "neterror", status |-> 200, data |-> <<>>]})

SpecTagCount == InitTagCount /\ [][Next]_vars

\* split_tags and map_tags as functions: every raw tag string of TagStrings
\* and every mapping of at most two tags to names that may be padded or
\* blank; the string is cons[1].tags, the mapping tag_mapping
AnyMappings ==
    UNION {[K -> {<<"b">>, <<"c">>, <<"c", " ">>, <<" ">>}] :
              K \in SUBSET {<<"a">>, <<"b">>}}

InitMapTags ==
    /\ cons \in [1..1 -> {ConsRow(S1, <<"A">>, NaN, t, Ts(1)) : t \in TagStrings}]
    /\ tag_mapping \in AnyMappings
    /\ pc = "call"
    /\ constituents = <<>> /\ emails = <<>> /\ donations = <<>>
    /\ api = SampleApi
    /\ deduped = <<>> /\ email_map = <<>> /\ resolved = <<>>
    /\ clean_tags = <<>> /\ mapped_tags = <<>>
    /\ tag_counts = <<>> /\ lifetime = <<>> /\ recent = <<>> /\ final = <<>>

\* map_tags(split_tags(s), m)
CallMapTags ==
    /\ pc = "call"
    /\ clean_tags' = [i \in DOMAIN cons |-> split_tags(cons[i].tags)]
    /\ mapped_tags' = [i \in DOMAIN cons |->
                          map_tags(split_tags(cons[i].tags), tag_mapping)]
    /\ pc' = "returned"
    /\ UNCHANGED <<constituents, emails, donations, api, deduped, cons,
                   email_map, resolved, tag_mapping, tag_counts, lifetime,
                   recent, final>>

NextMapTags == CallMapTags

SpecMapTags == InitMapTags /\ [][NextMapTags]_vars

\* donation rollups: two constituents and a donation sheet whose rows are
\* paid or not, with amounts and dates that parse or do not
DonationRows ==
    [id : {S1Sp, S2}, status : {Paid, <<"p", "a", "i", "d">>},
     amount : {Num(500), Num(1250), Text}, date : {Ts(1), Ts(2), Text}]

InitDonations == Load({SampleCons}, {SampleEmails}, Tables(DonationRows, MaxDonations),
                      {SampleApi})

SpecDonations == InitDonations /\ [][Next]_vars

----------------------------------------------------------------------------
(* Identity resolution: C1, C2, C4 *)

Nan3 == <<"n", "a", "n">>

\* the identifier of an input row as main() sees it: str(), then strip()
IdOf(r) == Strip(astype_str(r.id))

\* C1: the constituent output has exactly one row per distinct identifier of
\* the input: no two output rows carry the same CB Constituent ID, and every
\* input identifier appears in the output.
C1_OneRowPerIdentifier ==
    pc = "done" =>
        /\ \A i \in DOMAIN final : \A j \in DOMAIN final :
               final[i].id = final[j].id => i = j
        /\ \A i \in DOMAIN constituents :
               \E j \in DOMAIN final : final[j].id = IdOf(constituents[i])

\* the number of non-blank fields of an input row besides its identifier
\* (the identifier is the same for all rows of a group)
C2_Filled(r) ==
    Cardinality({f \in {"name", "primary", "tags"} :
                    r[f] # NaN /\ \E k \in DOMAIN r[f] : r[f][k] # " "})
    + (IF r.date = NaT THEN 0 ELSE 1)

C2_Parseable(r) == r.date.k = "ts"

\* row a outranks row b of the same group, a at position i and b at j
C2_Outranks(a, i, b, j) ==
    \/ C2_Filled(a) > C2_Filled(b)
    \/ /\ C2_Filled(a) = C2_Filled(b)
       /\ \/ C2_Parseable(a) /\ ~C2_Parseable(b)
          \/ C2_Parseable(a) /\ C2_Parseable(b) /\ a.date.v > b.date.v
          \/ /\ (C2_Parseable(a) <=> C2_Parseable(b))
             /\ (C2_Parseable(a) => a.date.v = b.date.v)
             /\ i < j

\* C2: of the input rows that share an identifier, dedupe_constituents keeps
\* the one with the most non-blank fields; among those, the one with the
\* most recent parseable entry date, a row without one ranking below every
\* row with one; among those, the one that comes first in the input.
C2_KeepsBestRow ==
    pc # "start" =>
        \A i \in DOMAIN constituents :
            (\A j \in DOMAIN constituents \ {i} :
                astype_str(constituents[j].id) = astype_str(constituents[i].id) =>
                    C2_Outranks(constituents[i], i, constituents[j], j))
            => /\ \E k \in DOMAIN deduped :
                      deduped[k] = [constituents[i] EXCEPT !.id = astype_str(@)]
               /\ \A k \in DOMAIN deduped :
                      deduped[k].id = astype_str(constituents[i].id)
                      => deduped[k] = [constituents[i] EXCEPT !.id = astype_str(@)]

\* two rows of one identifier tie on the count; the first has a date text
\* that does not parse, the second a date; the second is kept
C2_Witness ==
    /\ pc = "done"
    /\ Len(constituents) = 2
    /\ constituents[1].id = constituents[2].id
    /\ constituents[1].date = Text
    /\ constituents[2].date.k = "ts"
    /\ C2_Filled(constituents[1]) = C2_Filled(constituents[2])
    /\ constituents[1].name # constituents[2].name
    /\ Len(deduped) = 1
    /\ deduped[1].name = constituents[2].name

\* C4: a constituent row without an identifier is fatal: the run stops and
\* no output record is produced for the row, under no placeholder identifier.
C4_MissingIdIsFatal ==
    (\E i \in DOMAIN constituents : constituents[i].id = NaN) =>
        /\ pc # "done"
        /\ \A j \in DOMAIN final : final[j].id # Nan3

----------------------------------------------------------------------------
(* E-mail resolution: C3, C8 *)

\* the declared primary e-mail of a row, cleaned and lowercased
C3_Primary(r) == IF r.primary = NaN THEN <<>> ELSE Lower(Strip(r.primary))

\* the valid addresses of the e-mail sheet for identifier p, in sheet order
C3_Discovered(p) ==
    LET Mine(e) == /\ IdOf(e) = p
                   /\ e.email # NaN
                   /\ is_valid_email(Lower(Strip(e.email)))
        mine == SelectSeq(emails, Mine)
    IN  [i \in DOMAIN mine |-> Lower(Strip(mine[i].email))]

\* C3: email1 is the declared primary e-mail (lowercased) if it is present
\* and matches the pattern, otherwise the first valid discovered e-mail of
\* the identifier in sheet order, otherwise empty; a declared primary that
\* does not match the pattern is neither email1 nor email2.
C3_Email1FromValidPrimary ==
    pc = "done" =>
        \A i \in DOMAIN final :
            LET p == C3_Primary(cons[i])
                d == C3_Discovered(cons[i].id)
            IN  /\ final[i].email1 =
                       IF p # <<>> /\ is_valid_email(p) THEN p
                       ELSE IF d # <<>> THEN d[1] ELSE <<>>
                /\ (p # <<>> /\ ~is_valid_email(p))
                       => final[i].email1 # p /\ final[i].email2 # p

\* C8: if email1 is empty then email2 is empty; in particular both are
\* empty when there is no valid primary and no discovered e-mail.
C8_Email1EmptyThenEmail2Empty ==
    pc = "done" =>
        \A i \in DOMAIN final :
            /\ final[i].email1 = <<>> => final[i].email2 = <<>>
            /\ (/\ ~is_valid_email(C3_Primary(cons[i]))
                /\ C3_Discovered(cons[i].id) = <<>>)
                   => final[i].email1 = <<>> /\ final[i].email2 = <<>>

----------------------------------------------------------------------------
(* Tags: C5, C6, C9 *)

AfterTags == pc \in {"donations", "output", "done"}

\* the lookup failed: no answer, a status other than 200, a body that is no
\* JSON list of objects
C5_LookupFailed ==
    \/ api.outcome # "ok"
    \/ api.status # 200
    \/ \E i \in DOMAIN api.data : ~api.data[i].dict

\* C5: when the lookup fails, fetch_tag_mapping returns the empty mapping,
\* the run goes on through the tag counts and the constituent output to its
\* end, and every constituent's mapped tags are its parsed tags.
C5_FailedLookupIsIdentity ==
    C5_LookupFailed =>
        /\ AfterTags => /\ tag_mapping = EmptyMapping
                        /\ mapped_tags = clean_tags
                        /\ \A k \in DOMAIN tag_counts :
                               \E i \in DOMAIN cons :
                                   tag_counts[k].name \in Range(clean_tags[i])
        /\ pc = "done" => Len(final) = Len(cons)

\* the payload holds a usable item and then one that is no object; the run
\* ends, and the tag the first item would rename keeps its name
C5_Witness ==
    /\ pc = "done"
    /\ api.outcome = "ok" /\ api.status = 200
    /\ api.data = <<[dict |-> TRUE, name |-> <<"a">>, mapped_name |-> <<"b">>],
                    NotAnObject>>
    /\ cons[1].tags = <<"a", ",", "b">>
    /\ tag_mapping = EmptyMapping
    /\ mapped_tags[1] = <<<<"a">>, <<"b">>>>
    /\ Len(final) = 1

\* the comma-free stretches of s, as pairs <<first, last>> of positions
\* (last = first - 1 for an empty stretch)
C9_Stretches(s) ==
    {<<a, b>> \in (1..Len(s) + 1) \X (0..Len(s)) :
        /\ a <= b + 1
        /\ a = 1 \/ s[a - 1] = ","
        /\ b = Len(s) \/ s[b + 1] = ","
        /\ \A k \in a..b : s[k] # ","}

\* the name the mapping gives the trimmed stretch p of s: m[t] if t is a
\* key of m, else t
C9_Name(s, p, m) ==
    LET t == Strip(SubSeq(s, p[1], p[2]))
    IN  IF t \in DOMAIN m THEN m[t] ELSE t

\* the stretches of s that are not blank
C9_Parts(s) ==
    IF s = NaN THEN {}
    ELSE {p \in C9_Stretches(s) : Strip(SubSeq(s, p[1], p[2])) # <<>>}

\* out lists the names nm[p] of the parts P, each once, in the order in
\* which they are first seen
C9_ListsOnce(out, P, nm) ==
    LET FirstSeen(x) == CHOOSE a \in {p[1] : p \in P} :
                            /\ \E p \in P : p[1] = a /\ nm[p] = x
                            /\ \A p \in P : nm[p] = x => a <= p[1]
    IN  /\ Range(out) = {nm[p] : p \in P}
        /\ \A k \in DOMAIN out : \A l \in DOMAIN out :
               k < l => out[k] # out[l] /\ FirstSeen(out[k]) < FirstSeen(out[l])

\* C9 as stated: for every raw tag string s and mapping m,
\* map_tags(split_tags(s), m) holds the mapped names (m[t] if t is a key of
\* m, else t) of the trimmed non-empty comma-separated parts of s, each
\* once, in the order in which they are first seen; with the empty mapping
\* it is split_tags(s).
C9_MappedTagsRaw ==
    pc = "returned" =>
        LET s == cons[1].tags
            m == tag_mapping
            P == C9_Parts(s)
        IN  /\ C9_ListsOnce(mapped_tags[1], P, [p \in P |-> C9_Name(s, p, m)])
            /\ m = EmptyMapping => mapped_tags[1] = clean_tags[1]

\* C9 as amended: for every raw tag string s and mapping m,
\* map_tags(split_tags(s), m) holds the mapped names of the trimmed
\* non-empty comma-separated parts of s with their surrounding blanks
\* removed, without the names that are then empty, each once, in the order
\* in which they are first seen; with the empty mapping it is split_tags(s).
C9_MappedTagsCleaned ==
    pc = "returned" =>
        LET s == cons[1].tags
            m == tag_mapping
            P == {p \in C9_Parts(s) : Strip(C9_Name(s, p, m)) # <<>>}
        IN  /\ C9_ListsOnce(mapped_tags[1], P, [p \in P |-> Strip(C9_Name(s, p, m))])
            /\ m = EmptyMapping => mapped_tags[1] = clean_tags[1]

\* one tag is mapped to a padded name and another to the same name without
\* blanks: the name is kept once, trimmed
C9_Witness ==
    /\ pc = "returned"
    /\ cons[1].tags = <<"a", ",", "b">>
    /\ clean_tags[1] = <<<<"a">>, <<"b">>>>
    /\ tag_mapping = [t \in {<<"a">>, <<"b">>} |->
                         IF t = <<"a">> THEN <<"c", " ">> ELSE <<"c">>]
    /\ mapped_tags[1] = <<<<"c">>>>

\* C6: the tag-count output has one row per non-empty mapped tag of an
\* output constituent; the count of a tag is the number of distinct
\* identifiers whose mapped tags contain it; the rows ascend by tag name.
C6_TagCounts ==
    pc = "done" =>
        /\ {tag_counts[k].name : k \in DOMAIN tag_counts}
               = UNION {Range(mapped_tags[i]) \ {<<>>} : i \in DOMAIN final}
        /\ \A k \in DOMAIN tag_counts :
               tag_counts[k].count =
                   Cardinality({final[i].id : i \in
                       {j \in DOMAIN final : tag_counts[k].name \in Range(mapped_tags[j])}})
        /\ \A k \in DOMAIN tag_counts : \A l \in DOMAIN tag_counts :
               k < l => StrLess(tag_counts[k].name, tag_counts[l].name)

\* two output rows of one identifier carry the same tag, counted once, and
\* the tags come out in the order of their code points
C6_Witness ==
    /\ pc = "done"
    /\ Len(final) = 2
    /\ final[1].id = final[2].id
    /\ mapped_tags[1] = <<<<"B">>, <<"c">>>>
    /\ mapped_tags[2] = <<<<"b">>, <<"c">>>>
    /\ tag_counts = <<[name |-> <<"B">>, count |-> 1],
                      [name |-> <<"b">>, count |-> 1],
                      [name |-> <<"c">>, count |-> 1]>>

----------------------------------------------------------------------------
(* Donations: C7, C10 *)

\* the rows of the donation sheet of identifier p whose status is "Paid"
C7_PaidOf(p) ==
    {j \in DOMAIN donations : IdOf(donations[j]) = p /\ donations[j].status = Paid}

\* the sum of the amounts that parse among the rows J of the sheet
RECURSIVE C7_Sum(_)
C7_Sum(J) ==
    IF J = {} THEN 0
    ELSE LET j == CHOOSE x \in J : TRUE
         IN  (IF donations[j].amount.k = "num" THEN donations[j].amount.v ELSE 0)
             + C7_Sum(J \ {j})

\* C7: the lifetime donation amount of a constituent is absent (the empty
\* string) when the identifier has no transaction whose status is exactly
\* "Paid"; otherwise it is the sum of the amounts that parse of its "Paid"
\* transactions, and of no other.
C7_LifetimeAmount ==
    pc = "done" =>
        \A i \in DOMAIN final :
            final[i].lifetime_amount =
                IF C7_PaidOf(final[i].id) = {} THEN <<>>
                ELSE to_currency(Num(C7_Sum(C7_PaidOf(final[i].id))))

\* constituent "1" has a "Paid" and a "paid" transaction, constituent "2"
\* none that is "Paid"
C7_Witness ==
    /\ pc = "done"
    /\ Len(donations) = 2
    /\ donations[1] = [id |-> S1Sp, status |-> Paid, amount |-> Num(500), date |-> Ts(1)]
    /\ donations[2].id = S1Sp /\ donations[2].status = <<"p", "a", "i", "d">>
    /\ donations[2].amount = Num(1250)
    /\ final[1].lifetime_amount = <<"$", "5", ".", "0", "0">>
    /\ final[2].lifetime_amount = <<>>

\* the "Paid" rows of identifier p whose date parses
C10_DatedOf(p) == {j \in C7_PaidOf(p) : donations[j].date.k = "ts"}

\* C10: the most recent donation of an identifier is its "Paid" transaction
\* with the greatest parseable date, the first of them in the sheet when
\* several share that date; a transaction whose date does not parse is
\* never selected.
C10_MostRecent ==
    pc = "done" =>
        \A i \in DOMAIN final :
            LET J == C10_DatedOf(final[i].id)
            IN  IF J = {}
                THEN final[i].recent_date = <<>> /\ final[i].recent_amount = <<>>
                ELSE \E j \in J :
                        /\ \A k \in J : donations[k].date.v <= donations[j].date.v
                        /\ \A k \in J : donations[k].date.v = donations[j].date.v => j <= k
                        /\ final[i].recent_date = strftime(donations[j].date)
                        /\ final[i].recent_amount =
                               IF donations[j].amount.k = "num"
                               THEN to_currency(donations[j].amount) ELSE <<>>

\* two "Paid" transactions of one identifier share the latest date: the
\* first of the sheet is reported
C10_Witness ==
    /\ pc = "done"
    /\ Len(donations) = 2
    /\ donations[1] = [id |-> S1Sp, status |-> Paid, amount |-> Num(500), date |-> Ts(2)]
    /\ donations[2] = [id |-> S1Sp, status |-> Paid, amount |-> Num(1250), date |-> Ts(2)]
    /\ final[1].recent_amount = <<"$", "5", ".", "0", "0">>
    /\ final[1].recent_date = <<"2", "0", "2", "1", "-", "0", "1", "-", "0", "2",
                                "T", "0", "0", ":", "0", "0", ":", "0", "0">>

====
